---- MODULE Spec2Model ----
(***************************************************************************)
(* WhereCanIBee backend: the spatial POI cache (cacheService.js), the      *)
(* cache-first request handler POST /api/pois (server.js), the provider    *)
(* gateway (poiService / overpassProvider.js) and the SSE fan-out          *)
(* (sseService.js).                                                        *)
(*                                                                         *)
(* Geometry abstraction.  The plane is cut into NCells disjoint tiles on a *)
(* line.  A geometry is the set of tiles it contains; a request polygon is *)
(* a single ring, i.e. a non-empty run of adjacent tiles.  Two geometries  *)
(* intersect iff they share a tile.  A set of tiles that is not one run is *)
(* a MULTIPOLYGON (one part per maximal run).  A POI lies in one tile.     *)
(* SQL values keep their type (text / blob / null): the SpatiaLite         *)
(* functions return NULL on an argument of the wrong type.                 *)
(***************************************************************************)
EXTENDS Integers, Sequences, FiniteSets, TLC

VARIABLES
  spatialiteEnabled,  \* cacheService: the SpatiaLite extension was loaded
  now,                \* the clock (CURRENT_TIMESTAMP), in days; a day stands
                      \* for one step of the clock when statements read it
  poi_cache,          \* table poi_cache: the rows in rowid order
  cache_coverage,     \* table cache_coverage: the rows in rowid order
  req,                \* the POST /api/pois requests: position and locals
  connections,        \* sseService.connections
  client,             \* the GET /api/pois/stream connections
  outbox              \* what was written to each stream connection

vars == <<spatialiteEnabled, now, poi_cache, cache_coverage, req,
          connections, client, outbox>>

-----------------------------------------------------------------------------
(* Bounds of the model *)

NCells == 3
NPois == 2
MaxReqs == 3
MaxClients == 1
DayStep == 30
MaxDay == 30
MaxEvents == 2
MaxStreamReqs == 2
MaxFanOut == 2

(* Program constants *)

FreshDays == 30

-----------------------------------------------------------------------------
(* Values *)

Cells == 1..NCells
PoiIds == 1..NPois
Reqs == 1..MaxReqs
Clients == 1..MaxClients

\* JavaScript null / undefined
NULL == [null |-> TRUE]

\* SQL values
SqlNull == [t |-> "null"]
Blob(S) == [t |-> "blob", cells |-> S]

\* a GeoJSON FeatureCollection with one single-ring Polygon; nan: a coordinate
\* of the ring is NaN
GeoPolygon(S, n) == [cells |-> S, nan |-> n]

\* the request polygons: one ring, a run of adjacent tiles
Polygons == { GeoPolygon(a..b, FALSE) : a \in Cells, b \in Cells } \ { GeoPolygon({}, FALSE) }

CATEGORIES ==
  [ restaurants |-> {"restaurant", "cafe", "bar", "fast_food", "pub"},
    recreation  |-> {"park", "playground"} ]

Categories == DOMAIN CATEGORIES

\* categories a client may send: the configured ones and one that is not
RequestCategories == Categories \cup {"shops"}

\* the polygon of a request body as sent: the ring and the way its numbers
\* are written ("1" or "1.0")
NumberFormats == {"1", "1.0"}
Bodies == [cells : { p.cells : p \in Polygons }, fmt : NumberFormats]

\* the walking times the map offers
Durations == {15, 30, 45, 60}

\* the entities of the external map: entity i sits in tile PoiCell(i) and
\* carries the tag amenity = PoiAmenity(i)
PoiCell(i) == (i % NCells) + 1
PoiAmenity(i) == IF i % 3 = 0 THEN "park" ELSE "cafe"

\* entities the provider may return without coordinates (neither lat/lon nor
\* center), one per category
Unlocated == (NPois + 1)..(NPois + 2)

\* element.lat || element.center?.lat, as a tile; 0: none
ElementCell(i) == IF i \in PoiIds THEN PoiCell(i) ELSE 0

\* element.tags?.name; "": no name tag
ElementName(i) == IF i % 2 = 1 THEN "named" ELSE ""

\* element.tags: the tag map
ElementTags(i) == [amenity |-> PoiAmenity(i), name |-> ElementName(i)]

\* JSON.stringify(poi.tags): the text of the map, which is not the map
TagsText(tags) == [json |-> tags]

-----------------------------------------------------------------------------
(* Sequences and sets *)

RECURSIVE SetToSeq(_)
SetToSeq(S) ==
  IF S = {} THEN <<>>
  ELSE LET m == CHOOSE x \in S : \A y \in S : x <= y
       IN <<m>> \o SetToSeq(S \ {m})

\* the maximal runs of adjacent tiles of S, in ascending order
RECURSIVE Parts(_)
Parts(S) ==
  IF S = {} THEN <<>>
  ELSE LET lo == CHOOSE x \in S : \A y \in S : x <= y
           hi == CHOOSE x \in S : /\ x >= lo
                                  /\ \A y \in lo..x : y \in S
                                  /\ (x + 1) \notin S
       IN <<lo..hi>> \o Parts(S \ (lo..hi))

-----------------------------------------------------------------------------
(* SpatiaLite functions used by cacheService.js *)

\* WKT text: kind and the rings' parts; nan: a number of the text is "NaN"
WktText(k, ps, n) == [t |-> "text", kind |-> k, parts |-> ps, nan |-> n]

\* ST_GeomFromText(wkt, 4326): NULL unless the argument is text that parses
ST_GeomFromText(v) ==
  IF v.t = "text" /\ ~v.nan
  THEN Blob(UNION { v.parts[i] : i \in DOMAIN v.parts })
  ELSE SqlNull

ST_AsText(g) ==
  IF g.t # "blob" THEN SqlNull
  ELSE IF g.cells = {} THEN WktText("GEOMETRYCOLLECTION EMPTY", <<>>, FALSE)
  ELSE IF Len(Parts(g.cells)) = 1 THEN WktText("POLYGON", Parts(g.cells), FALSE)
  ELSE WktText("MULTIPOLYGON", Parts(g.cells), FALSE)

ST_Difference(a, b) ==
  IF a.t = "blob" /\ b.t = "blob" THEN Blob(a.cells \ b.cells) ELSE SqlNull

\* the aggregate ST_Union over the rows of the temporary table
ST_Union(gs) ==
  LET bs == { i \in DOMAIN gs : gs[i].t = "blob" }
  IN IF bs = {} THEN SqlNull ELSE Blob(UNION { gs[i].cells : i \in bs })

ST_Intersects(a, b) ==
  a.t = "blob" /\ b.t = "blob" /\ a.cells \cap b.cells # {}

\* ST_Within(MakePoint in tile c, g)
ST_Within(c, g) == g.t = "blob" /\ c \in g.cells

\* datetime(ts) > datetime('now', '-30 days')
Fresh(ts) == ts > now - FreshDays

-----------------------------------------------------------------------------
(* cacheService.js: utility functions *)

polygonToWKT(polygon) == WktText("POLYGON", <<polygon.cells>>, polygon.nan)

\* the regular expression POLYGON\(\((.*?)\)\) takes the text up to the first
\* "))": for MULTIPOLYGON(((..)), ((..))) that is the first part, with "(" left
\* in front of its first number, which Number() turns into NaN
wktToGeoJSON(wkt) ==
  IF wkt.t # "text" \/ wkt.kind = "GEOMETRYCOLLECTION EMPTY" THEN NULL
  ELSE IF wkt.kind = "POLYGON" THEN GeoPolygon(wkt.parts[1], wkt.nan)
  ELSE GeoPolygon(wkt.parts[1], TRUE)

\* a string is the sequence of its pieces; + is \o
JSONstringify(polygon) == <<[json |-> polygon]>>

\* (mutant) the body is kept as text
JSONparse_keepsText(body) == [cells |-> body.cells, nan |-> FALSE, fmt |-> body.fmt]

\* express.json(): the body as sent, with its number formatting, becomes a
\* JavaScript value, in which a number has no formatting
JSONparse(body) == GeoPolygon(body.cells, FALSE)

hashPolygon(polygon, category) ==
  LET str == JSONstringify(polygon) \o <<category>>
  IN [alg |-> "md5", of |-> str]

Sha256(str) == [alg |-> "sha256", of |-> str]

-----------------------------------------------------------------------------
(* cacheService.js: core cache operations, over the tables poi_cache and    *)
(* cache_coverage                                                           *)

\* getCachedPOIs throws: unknown category, or (without SpatiaLite) the
\* statement does not compile because ST_Within is no function
getCachedPOIsThrows(category) ==
  category \notin Categories \/ ~spatialiteEnabled

\* SELECT ... FROM poi_cache WHERE category IN (amenity types)
\*   AND ST_Within(geom, ST_GeomFromText(wkt)) AND updated_at fresh
getCachedPOIs(polygon, category) ==
  LET wkt == polygonToWKT(polygon)
      amenityTypes == CATEGORIES[category]
      hit(row) == /\ row.category \in amenityTypes
                  /\ ST_Within(row.cell, ST_GeomFromText(wkt))
                  /\ Fresh(row.updated_at)
  IN SelectSeq(poi_cache, hit)

\* SELECT polygon_geom FROM cache_coverage WHERE category = ?
\*   AND ST_Intersects(polygon_geom, ST_GeomFromText(wkt)) AND cached_at fresh
overlappingCoverage(polygon, category) ==
  LET polygonWKT == polygonToWKT(polygon)
      hit(c) == /\ c.category = category
                /\ ST_Intersects(c.polygon_geom, ST_GeomFromText(polygonWKT))
                /\ Fresh(c.cached_at)
  IN SelectSeq(cache_coverage, hit)

\* one row: the column value itself (a geometry blob); several rows: the text
\* of their union
unionedGeometry(rows) ==
  IF Len(rows) = 1 THEN rows[1].polygon_geom
  ELSE ST_AsText(ST_Union([i \in DOMAIN rows |-> rows[i].polygon_geom]))

\* SELECT ST_AsText(ST_Difference(ST_GeomFromText(?), ST_GeomFromText(?)))
uncachedResult(polygonWKT, unioned) ==
  ST_AsText(ST_Difference(ST_GeomFromText(polygonWKT), ST_GeomFromText(unioned)))

\* eng: "ok"; "union": a statement between CREATE TEMPORARY TABLE and DROP
\* TABLE throws; "op": another statement inside the try block throws.  (A
\* throw of the coverage lookup, outside the try block, is the caller's:
\* BgStart.)
getUncachedArea(polygon, category, eng) ==
  IF ~spatialiteEnabled THEN polygon
  ELSE LET rows == overlappingCoverage(polygon, category)
       IN IF Len(rows) = 0 THEN polygon
          ELSE IF eng \in {"op", "union"} THEN polygon
          ELSE LET u == uncachedResult(polygonToWKT(polygon), unionedGeometry(rows))
               IN IF u.t # "null" /\ u.kind # "GEOMETRYCOLLECTION EMPTY"
                  THEN wktToGeoJSON(u)
                  ELSE NULL

\* the temporary tables a call of getUncachedArea leaves in the schema: the
\* table temp_union_<stamp> is created when several coverage rows overlap and
\* dropped after the union was read; the catch block drops nothing
tempTablesLeft(polygon, category, eng, stamp) ==
  IF ~spatialiteEnabled THEN {}
  ELSE LET rows == overlappingCoverage(polygon, category)
       IN IF Len(rows) <= 1 THEN {}
          ELSE IF eng = "union" THEN {[temp_union |-> stamp]}
          ELSE {}

\* INSERT OR REPLACE INTO poi_cache (osm_id, ...): the table's only key is the
\* rowid id, which the statement does not give, so no row ever conflicts
insertPOI(table, poi) ==
  Append(table, [id |-> Len(table) + 1, osm_id |-> poi.id, category |-> poi.category,
                 cell |-> poi.cell, tags |-> TagsText(poi.tags), updated_at |-> now])

RECURSIVE insertPOIs(_, _)
insertPOIs(table, pois) ==
  IF pois = <<>> THEN table ELSE insertPOIs(insertPOI(table, Head(pois)), Tail(pois))

\* (mutant) cachePOIs without the coverage row
insertCoverage_skipped(table, polygon, category, count) == table

\* (mutant) the coverage rows of the category are replaced by the new one
insertCoverage_replacesCategory(table, polygon, category, count) ==
  LET other(c) == c.category # category
  IN Append(SelectSeq(table, other),
            [polygon_geom |-> ST_GeomFromText(polygonToWKT(polygon)),
             category |-> category, poi_count |-> count, cached_at |-> now])

\* (mutant) coverage keyed by geometry and category: a row for the same region
\* is overwritten
insertCoverage_overwrites(table, polygon, category, count) ==
  LET g == ST_GeomFromText(polygonToWKT(polygon))
      other(c) == ~(c.category = category /\ c.polygon_geom = g)
  IN Append(SelectSeq(table, other),
            [polygon_geom |-> g, category |-> category,
             poi_count |-> count, cached_at |-> now])

\* INSERT INTO cache_coverage (polygon_geom, category, poi_count, cached_at)
insertCoverage(table, polygon, category, count) ==
  Append(table, [polygon_geom |-> ST_GeomFromText(polygonToWKT(polygon)),
                 category |-> category, poi_count |-> count, cached_at |-> now])

\* (mutant) cachePOIs without the transaction: a throw of the coverage insert
\* leaves the POIs in the table
cachePOIs_noTransaction(polygon, category, pois, wr) ==
  IF wr = "fail"
  THEN /\ poi_cache' = insertPOIs(poi_cache, pois)
       /\ UNCHANGED cache_coverage
  ELSE /\ poi_cache' = insertPOIs(poi_cache, pois)
       /\ cache_coverage' = insertCoverage(cache_coverage, polygon, category, Len(pois))

\* the transaction of cachePOIs; wr = "fail": a statement throws and the
\* transaction rolls back; wr = "tick": each statement reads
\* CURRENT_TIMESTAMP when it runs, and the clock shows the next value when
\* the coverage insert runs, after the POI inserts
cachePOIs(polygon, category, pois, wr) ==
  IF wr = "fail"
  THEN /\ UNCHANGED <<poi_cache, cache_coverage>>
  ELSE /\ poi_cache' = insertPOIs(poi_cache, pois)
       /\ LET rows == insertCoverage(cache_coverage, polygon, category, Len(pois))
          IN cache_coverage' = IF wr = "tick"
                               THEN [rows EXCEPT ![Len(rows)].cached_at = now + 1]
                               ELSE rows

-----------------------------------------------------------------------------
(* poiService / overpassProvider.js *)

transformElementToPOI(i) ==
  [id |-> i,
   name |-> IF ElementName(i) # "" THEN ElementName(i) ELSE "Unnamed",
   category |-> PoiAmenity(i),
   cell |-> ElementCell(i),
   tags |-> ElementTags(i)]

\* what the POST to the Overpass interpreter may end with: axios rejects
\* (network, timeout, status), the body has no elements array, or it lists
\* some of the map's entities with a matching amenity that are inside the
\* polygon or have no coordinates.  A polygon string holding NaN is rejected.
OverpassResponses(polygon, amenityTypes) ==
  LET matching == { i \in PoiIds \cup Unlocated :
                      /\ PoiAmenity(i) \in amenityTypes
                      /\ i \in PoiIds => PoiCell(i) \in polygon.cells }
  IN {[kind |-> "rejected", elements |-> <<>>], [kind |-> "malformed", elements |-> <<>>]} \cup
     (IF polygon.nan THEN {}
      ELSE { [kind |-> "ok", elements |-> SetToSeq(S)] : S \in SUBSET matching })

\* (mutant) getPOIs without the filter
getPOIs_unfiltered(response) ==
  IF response.kind # "ok" THEN [ok |-> FALSE, pois |-> <<>>]
  ELSE [ok |-> TRUE,
        pois |-> [k \in DOMAIN response.elements |->
                    transformElementToPOI(response.elements[k])]]

\* getPOIs after the POST: elements.map(transformElementToPOI).filter(lat && lng);
\* any throw inside the try block is rethrown as one Error (ok = FALSE)
getPOIs(response) ==
  IF response.kind # "ok" THEN [ok |-> FALSE, pois |-> <<>>]
  ELSE LET pois == [k \in DOMAIN response.elements |->
                      transformElementToPOI(response.elements[k])]
           located(poi) == poi.cell # 0
       IN [ok |-> TRUE, pois |-> SelectSeq(pois, located)]

\* what a call getPOIs(polygon, category) of poiService may end with
getPOIsOutcomes(polygon, category) ==
  { getPOIs(response) : response \in OverpassResponses(polygon, CATEGORIES[category]) }

-----------------------------------------------------------------------------
(* sseService.js *)

\* connections: category -> set of client ids (a Map of Maps; a category
\* without key is not in the domain)
addConnection(conns, category, c) ==
  IF category \in DOMAIN conns
  THEN [conns EXCEPT ![category] = @ \cup {c}]
  ELSE [k \in DOMAIN conns \cup {category} |-> IF k = category THEN {c} ELSE conns[k]]

\* (mutant) a category stays in the registry when its last connection leaves
removeConnection_keepsEmpty(conns, category, c) ==
  IF category \in DOMAIN conns
  THEN [conns EXCEPT ![category] = @ \ {c}]
  ELSE conns

\* (mutant) removing a connection that is not registered drops its category
removeConnection_dropsCategory(conns, category, c) ==
  IF category \in DOMAIN conns
  THEN IF conns[category] \ {c} = {} \/ c \notin conns[category]
       THEN [k \in DOMAIN conns \ {category} |-> conns[k]]
       ELSE [conns EXCEPT ![category] = @ \ {c}]
  ELSE conns

removeConnection(conns, category, c) ==
  IF category \in DOMAIN conns
  THEN IF conns[category] \ {c} = {}
       THEN [k \in DOMAIN conns \ {category} |-> conns[k]]
       ELSE [conns EXCEPT ![category] = @ \ {c}]
  ELSE conns

updateData(category, newPOIs, polygon) ==
  [type |-> "poi_update", category |-> category, pois |-> newPOIs,
   count |-> Len(newPOIs), polygon_hash |-> Sha256(JSONstringify(polygon))]

RECURSIVE removeConnections(_, _, _)
removeConnections(conns, category, cs) ==
  IF cs = {} THEN conns
  ELSE LET c == CHOOSE x \in cs : TRUE
       IN removeConnections(removeConnection(conns, category, c), category, cs \ {c})

\* the subscribers of a category
Subscribers(category) ==
  IF category \in DOMAIN connections THEN connections[category] ELSE {}

\* (mutant) the update goes to every connection, whatever its category
broadcastPOIUpdates_toAll(category, newPOIs, polygon, broken) ==
  IF DOMAIN connections = {} \/ Len(newPOIs) = 0
  THEN UNCHANGED <<connections, outbox>>
  ELSE /\ outbox' = [c \in DOMAIN outbox |->
                       IF c \in (UNION { connections[k] : k \in DOMAIN connections }) \ broken
                       THEN Append(outbox[c], updateData(category, newPOIs, polygon))
                       ELSE outbox[c]]
       /\ connections' = removeConnections(connections, category,
                                           Subscribers(category) \cap broken)

\* (mutant) a connection whose write throws stays registered
broadcastPOIUpdates_keepsBroken(category, newPOIs, polygon, broken) ==
  IF category \notin DOMAIN connections \/ Len(newPOIs) = 0
  THEN UNCHANGED <<connections, outbox>>
  ELSE /\ outbox' = [c \in DOMAIN outbox |->
                       IF c \in connections[category] \ broken
                       THEN Append(outbox[c], updateData(category, newPOIs, polygon))
                       ELSE outbox[c]]
       /\ UNCHANGED connections

\* broken: the connections whose res.write throws; they are removed
broadcastPOIUpdates(category, newPOIs, polygon, broken) ==
  IF category \notin DOMAIN connections \/ Len(newPOIs) = 0
  THEN UNCHANGED <<connections, outbox>>
  ELSE /\ outbox' = [c \in DOMAIN outbox |->
                       IF c \in connections[category] \ broken
                       THEN Append(outbox[c], updateData(category, newPOIs, polygon))
                       ELSE outbox[c]]
       /\ connections' = removeConnections(connections, category,
                                           connections[category] \cap broken)

-----------------------------------------------------------------------------
(* server.js: POST /api/pois *)

NotYet == [notyet |-> TRUE]

ErrorResponse == [status |-> 500, error |-> "Failed to fetch POIs"]

PoisResponse(pois, category, cached) ==
  [status |-> 200, pois |-> pois, category |-> category,
   count |-> Len(pois), cached |-> cached]

\* the tiles of polygon outside every fresh coverage row of category (the
\* remainder the cache is meant to compute; used by the properties only)
FreshCoverage(category) ==
  UNION { cache_coverage[i].polygon_geom.cells :
            i \in { j \in DOMAIN cache_coverage :
                      /\ cache_coverage[j].category = category
                      /\ Fresh(cache_coverage[j].cached_at)
                      /\ cache_coverage[j].polygon_geom.t = "blob" } }

Remainder(polygon, category) == polygon.cells \ FreshCoverage(category)

\* a request: its position (pc), the handler's locals (polygon, category,
\* uncachedArea as area), the response sent (resp), the geometries passed to
\* getPOIs (fetched), whether console.error logged a background failure
\* (logged); and for the properties: what the handler found (pre: the requests
\* done before it, the time, the part of the polygon outside fresh coverage),
\* the result of getCachedPOIs (cachedPOIs), the remainder at the time of
\* getUncachedArea (remainder), how the engine ended (eng), and how the
\* provider call and the cache write after it ended (got: "ok" with n POIs,
\* "failed" when either threw)
IdleReq ==
  [pc |-> "idle", polygon |-> NULL, category |-> "", resp |-> NULL,
   area |-> NotYet, fetched |-> <<>>, logged |-> FALSE,
   pre |-> NotYet, cachedPOIs |-> <<>>, remainder |-> {},
   eng |-> "ok", got |-> "none", n |-> 0, temp |-> {}]

InFlight(r) == req[r].pc \in {"bg_pending", "bg_fetch", "miss_fetch"}

\* (mutant) the cached branch schedules the background check and responds
\* only after it
Receive_respondsLate(r, polygon, category) ==
  /\ req[r].pc = "idle"
  /\ r > 1 => req[r - 1].pc # "idle"
  /\ LET pre == [done |-> { q \in Reqs : req[q].pc = "done" },
                 at |-> now,
                 remainder |-> Remainder(polygon, category)]
         rejected == [IdleReq EXCEPT !.polygon = polygon, !.category = category]
         base == [rejected EXCEPT !.pre = pre]
     IN IF getCachedPOIsThrows(category)
        THEN req' = [req EXCEPT ![r] = [rejected EXCEPT !.pc = "done", !.resp = ErrorResponse]]
        ELSE LET cachedPOIs == getCachedPOIs(polygon, category)
             IN IF Len(cachedPOIs) > 0
                THEN req' = [req EXCEPT ![r] =
                               [base EXCEPT !.pc = "bg_pending",
                                            !.cachedPOIs = cachedPOIs]]
                ELSE req' = [req EXCEPT ![r] =
                               [base EXCEPT !.pc = "miss_fetch", !.fetched = <<polygon>>]]
  /\ UNCHANGED <<spatialiteEnabled, now, poi_cache, cache_coverage,
                 connections, client, outbox>>

\* (mutant) a category without amenity types finds nothing cached
Receive_anyCategory(r, polygon, category) ==
  /\ req[r].pc = "idle"
  /\ r > 1 => req[r - 1].pc # "idle"
  /\ LET pre == [done |-> { q \in Reqs : req[q].pc = "done" },
                 at |-> now,
                 remainder |-> Remainder(polygon, category)]
         rejected == [IdleReq EXCEPT !.polygon = polygon, !.category = category]
         base == [rejected EXCEPT !.pre = pre]
     IN IF ~spatialiteEnabled
        THEN req' = [req EXCEPT ![r] = [rejected EXCEPT !.pc = "done", !.resp = ErrorResponse]]
        ELSE LET cachedPOIs == IF category \in Categories
                               THEN getCachedPOIs(polygon, category) ELSE <<>>
             IN IF Len(cachedPOIs) > 0
                THEN req' = [req EXCEPT ![r] =
                               [base EXCEPT !.pc = "bg_pending",
                                            !.cachedPOIs = cachedPOIs,
                                            !.resp = PoisResponse(cachedPOIs, category, TRUE)]]
                ELSE req' = [req EXCEPT ![r] =
                               [base EXCEPT !.pc = "miss_fetch", !.fetched = <<polygon>>]]
  /\ UNCHANGED <<spatialiteEnabled, now, poi_cache, cache_coverage,
                 connections, client, outbox>>

\* the handler up to its first suspension: getCachedPOIs, then the cached
\* branch (respond, setImmediate) or the start of the provider call
Receive(r, polygon, category) ==
  /\ req[r].pc = "idle"
  /\ r > 1 => req[r - 1].pc # "idle"
  /\ LET pre == [done |-> { q \in Reqs : req[q].pc = "done" },
                 at |-> now,
                 remainder |-> Remainder(polygon, category)]
         rejected == [IdleReq EXCEPT !.polygon = polygon, !.category = category]
         base == [rejected EXCEPT !.pre = pre]
     IN IF getCachedPOIsThrows(category)
        THEN req' = [req EXCEPT ![r] = [rejected EXCEPT !.pc = "done", !.resp = ErrorResponse]]
        ELSE LET cachedPOIs == getCachedPOIs(polygon, category)
             IN IF Len(cachedPOIs) > 0
                THEN req' = [req EXCEPT ![r] =
                               [base EXCEPT !.pc = "bg_pending",
                                            !.cachedPOIs = cachedPOIs,
                                            !.resp = PoisResponse(cachedPOIs, category, TRUE)]]
                ELSE req' = [req EXCEPT ![r] =
                               [base EXCEPT !.pc = "miss_fetch", !.fetched = <<polygon>>]]
  /\ UNCHANGED <<spatialiteEnabled, now, poi_cache, cache_coverage,
                 connections, client, outbox>>

\* the setImmediate callback up to the provider call.  eng = "lookup": the
\* coverage lookup throws; eng = "union": a statement on the temporary
\* union table throws; eng = "op": another statement of the try block throws
BgStart(r, eng) ==
  /\ req[r].pc = "bg_pending"
  /\ eng = "op" => Len(overlappingCoverage(req[r].polygon, req[r].category)) > 0
  /\ eng = "union" =>
       spatialiteEnabled /\ Len(overlappingCoverage(req[r].polygon, req[r].category)) > 1
  /\ IF eng = "lookup"
     THEN req' = [req EXCEPT ![r].pc = "done", ![r].logged = TRUE, ![r].eng = eng]
     ELSE LET uncachedArea == getUncachedArea(req[r].polygon, req[r].category, eng)
              rem == Remainder(req[r].polygon, req[r].category)
              left == tempTablesLeft(req[r].polygon, req[r].category, eng, r)
          IN IF uncachedArea # NULL
             THEN req' = [req EXCEPT ![r].pc = "bg_fetch", ![r].area = uncachedArea,
                                     ![r].fetched = Append(@, uncachedArea),
                                     ![r].eng = eng, ![r].remainder = rem,
                                     ![r].temp = left]
             ELSE req' = [req EXCEPT ![r].pc = "done", ![r].area = uncachedArea,
                                     ![r].eng = eng, ![r].remainder = rem,
                                     ![r].temp = left]
  /\ UNCHANGED <<spatialiteEnabled, now, poi_cache, cache_coverage,
                 connections, client, outbox>>

\* (mutant) a failed background provider call is logged and tried again
BgReturn_retries(r, wr) ==
  /\ req[r].pc = "bg_fetch"
  /\ \E out \in getPOIsOutcomes(req[r].area, req[r].category) :
       /\ wr = "fail" => out.ok /\ Len(out.pois) > 0
       /\ IF out.ok /\ Len(out.pois) > 0
          THEN /\ cachePOIs(req[r].area, req[r].category, out.pois, wr)
               /\ IF wr = "fail"
                  THEN UNCHANGED <<connections, outbox>>
                  ELSE \E broken \in SUBSET Subscribers(req[r].category) :
                         broadcastPOIUpdates(req[r].category, out.pois, req[r].polygon, broken)
          ELSE UNCHANGED <<poi_cache, cache_coverage, connections, outbox>>
       /\ req' = [req EXCEPT ![r].pc = IF out.ok THEN "done" ELSE "bg_fetch",
                             ![r].fetched = IF out.ok THEN @ ELSE Append(@, req[r].area),
                             ![r].logged = ~out.ok \/ wr = "fail",
                             ![r].got = IF out.ok /\ wr = "ok" THEN "ok" ELSE "failed",
                             ![r].n = IF wr = "ok" THEN Len(out.pois) ELSE 0]
  /\ UNCHANGED <<spatialiteEnabled, now, client>>

\* (mutant) the refill is cached as coverage of the whole request polygon
BgReturn_coversRequest(r, wr) ==
  /\ req[r].pc = "bg_fetch"
  /\ wr = "tick" => now + 1 <= MaxDay
  /\ \E out \in getPOIsOutcomes(req[r].area, req[r].category) :
       /\ wr # "ok" => out.ok /\ Len(out.pois) > 0
       /\ IF out.ok /\ Len(out.pois) > 0
          THEN /\ cachePOIs(req[r].polygon, req[r].category, out.pois, wr)
               /\ IF wr = "fail"
                  THEN UNCHANGED <<connections, outbox>>
                  ELSE \E broken \in SUBSET Subscribers(req[r].category) :
                         broadcastPOIUpdates(req[r].category, out.pois, req[r].polygon, broken)
          ELSE UNCHANGED <<poi_cache, cache_coverage, connections, outbox>>
       /\ req' = [req EXCEPT ![r].pc = "done",
                             ![r].logged = ~out.ok \/ wr = "fail",
                             ![r].got = IF out.ok /\ wr # "fail" THEN "ok" ELSE "failed",
                             ![r].n = IF wr # "fail" THEN Len(out.pois) ELSE 0]
  /\ now' = IF wr = "tick" THEN now + 1 ELSE now
  /\ UNCHANGED <<spatialiteEnabled, client>>

\* (mutant) the update is published before the cache write
BgReturn_publishesFirst(r, wr) ==
  /\ req[r].pc = "bg_fetch"
  /\ wr = "tick" => now + 1 <= MaxDay
  /\ \E out \in getPOIsOutcomes(req[r].area, req[r].category) :
       /\ wr # "ok" => out.ok /\ Len(out.pois) > 0
       /\ IF out.ok /\ Len(out.pois) > 0
          THEN /\ cachePOIs(req[r].area, req[r].category, out.pois, wr)
               /\ \E broken \in SUBSET Subscribers(req[r].category) :
                    broadcastPOIUpdates(req[r].category, out.pois, req[r].polygon, broken)
          ELSE UNCHANGED <<poi_cache, cache_coverage, connections, outbox>>
       /\ req' = [req EXCEPT ![r].pc = "done",
                             ![r].logged = ~out.ok \/ wr = "fail",
                             ![r].got = IF out.ok /\ wr # "fail" THEN "ok" ELSE "failed",
                             ![r].n = IF wr # "fail" THEN Len(out.pois) ELSE 0]
  /\ now' = IF wr = "tick" THEN now + 1 ELSE now
  /\ UNCHANGED <<spatialiteEnabled, client>>

\* the background provider call returns: cache and broadcast what is new;
\* any throw ends in the catch block, which logs
BgReturn(r, wr) ==
  /\ req[r].pc = "bg_fetch"
  /\ wr = "tick" => now + 1 <= MaxDay
  /\ \E out \in getPOIsOutcomes(req[r].area, req[r].category) :
       /\ wr # "ok" => out.ok /\ Len(out.pois) > 0
       /\ IF out.ok /\ Len(out.pois) > 0
          THEN /\ cachePOIs(req[r].area, req[r].category, out.pois, wr)
               /\ IF wr = "fail"
                  THEN UNCHANGED <<connections, outbox>>
                  ELSE \E broken \in SUBSET Subscribers(req[r].category) :
                         broadcastPOIUpdates(req[r].category, out.pois, req[r].polygon, broken)
          ELSE UNCHANGED <<poi_cache, cache_coverage, connections, outbox>>
       /\ req' = [req EXCEPT ![r].pc = "done",
                             ![r].logged = ~out.ok \/ wr = "fail",
                             ![r].got = IF out.ok /\ wr # "fail" THEN "ok" ELSE "failed",
                             ![r].n = IF wr # "fail" THEN Len(out.pois) ELSE 0]
  /\ now' = IF wr = "tick" THEN now + 1 ELSE now
  /\ UNCHANGED <<spatialiteEnabled, client>>

\* (mutant) the miss branch broadcasts what it fetched
MissReturn_broadcasts(r, wr) ==
  /\ req[r].pc = "miss_fetch"
  /\ \E out \in getPOIsOutcomes(req[r].polygon, req[r].category) :
       /\ wr = "fail" => out.ok
       /\ IF out.ok
          THEN /\ cachePOIs(req[r].polygon, req[r].category, out.pois, wr)
               /\ IF wr = "fail"
                  THEN UNCHANGED <<connections, outbox>>
                  ELSE broadcastPOIUpdates(req[r].category, out.pois, req[r].polygon, {})
               /\ req' = [req EXCEPT ![r].pc = "done",
                                     ![r].got = IF wr = "ok" THEN "ok" ELSE "failed",
                                     ![r].n = IF wr = "ok" THEN Len(out.pois) ELSE 0,
                                     ![r].resp = IF wr = "fail" THEN ErrorResponse
                                                 ELSE PoisResponse(out.pois, req[r].category, FALSE)]
          ELSE /\ UNCHANGED <<poi_cache, cache_coverage, connections, outbox>>
               /\ req' = [req EXCEPT ![r].pc = "done", ![r].got = "failed",
                                     ![r].resp = ErrorResponse]
  /\ UNCHANGED <<spatialiteEnabled, now, client>>

\* (mutant) a failed provider call is cached as an empty result
MissReturn_cachesFailure(r, wr) ==
  /\ req[r].pc = "miss_fetch"
  /\ \E out \in getPOIsOutcomes(req[r].polygon, req[r].category) :
       /\ wr = "fail" => out.ok
       /\ IF out.ok
          THEN /\ cachePOIs(req[r].polygon, req[r].category, out.pois, wr)
               /\ req' = [req EXCEPT ![r].pc = "done",
                                     ![r].got = IF wr = "ok" THEN "ok" ELSE "failed",
                                     ![r].n = IF wr = "ok" THEN Len(out.pois) ELSE 0,
                                     ![r].resp = IF wr = "fail" THEN ErrorResponse
                                                 ELSE PoisResponse(out.pois, req[r].category, FALSE)]
          ELSE /\ cachePOIs(req[r].polygon, req[r].category, <<>>, "ok")
               /\ req' = [req EXCEPT ![r].pc = "done", ![r].got = "failed",
                                     ![r].resp = ErrorResponse]
  /\ UNCHANGED <<spatialiteEnabled, now, connections, client, outbox>>

\* (mutant) a failed provider call is answered like an empty result
MissReturn_emptyOnFailure(r, wr) ==
  /\ req[r].pc = "miss_fetch"
  /\ \E out \in getPOIsOutcomes(req[r].polygon, req[r].category) :
       /\ wr = "fail" => out.ok
       /\ IF out.ok
          THEN /\ cachePOIs(req[r].polygon, req[r].category, out.pois, wr)
               /\ req' = [req EXCEPT ![r].pc = "done",
                                     ![r].got = IF wr = "ok" THEN "ok" ELSE "failed",
                                     ![r].n = IF wr = "ok" THEN Len(out.pois) ELSE 0,
                                     ![r].resp = IF wr = "fail" THEN ErrorResponse
                                                 ELSE PoisResponse(out.pois, req[r].category, FALSE)]
          ELSE /\ UNCHANGED <<poi_cache, cache_coverage>>
               /\ req' = [req EXCEPT ![r].pc = "done", ![r].got = "failed",
                                     ![r].resp = PoisResponse(<<>>, req[r].category, FALSE)]
  /\ UNCHANGED <<spatialiteEnabled, now, connections, client, outbox>>

\* the provider call of the miss branch returns: cache, then respond; any
\* throw ends in the handler's catch block, which responds 500
MissReturn(r, wr) ==
  /\ req[r].pc = "miss_fetch"
  /\ wr = "tick" => now + 1 <= MaxDay
  /\ \E out \in getPOIsOutcomes(req[r].polygon, req[r].category) :
       /\ wr = "fail" => out.ok
       /\ wr = "tick" => out.ok /\ Len(out.pois) > 0
       /\ IF out.ok
          THEN /\ cachePOIs(req[r].polygon, req[r].category, out.pois, wr)
               /\ req' = [req EXCEPT ![r].pc = "done",
                                     ![r].got = IF wr # "fail" THEN "ok" ELSE "failed",
                                     ![r].n = IF wr # "fail" THEN Len(out.pois) ELSE 0,
                                     ![r].resp = IF wr = "fail" THEN ErrorResponse
                                                 ELSE PoisResponse(out.pois, req[r].category, FALSE)]
          ELSE /\ UNCHANGED <<poi_cache, cache_coverage>>
               /\ req' = [req EXCEPT ![r].pc = "done", ![r].got = "failed",
                                     ![r].resp = ErrorResponse]
  /\ now' = IF wr = "tick" THEN now + 1 ELSE now
  /\ UNCHANGED <<spatialiteEnabled, connections, client, outbox>>

-----------------------------------------------------------------------------
(* server.js: GET /api/pois/stream/:category *)

\* a connection: its state and category; and, when a Map component is behind
\* it, the component's isochrone, selectedDuration and currentPolygonHash, the
\* number of messages read and the POI lists handed to onPOIUpdate
NewClient ==
  [st |-> "new", category |-> "", isochrone |-> NULL, selectedDuration |-> 15,
   currentPolygonHash |-> NULL, read |-> 0, shown |-> <<>>,
   show |-> FALSE, pois |-> <<>>, timer |-> <<>>, sent |-> <<>>, got |-> {}]

\* (mutant) a new connection is sent the last message of its category
Subscribe_replays(c, category) ==
  /\ client[c].st = "new"
  /\ c > 1 => client[c - 1].st # "new"
  /\ connections' = addConnection(connections, category, c)
  /\ client' = [client EXCEPT ![c].st = "open", ![c].category = category]
  /\ outbox' = [outbox EXCEPT ![c] =
                  LET sent == { d \in DOMAIN outbox :
                                  outbox[d] # <<>> /\ client[d].category = category }
                  IN IF sent = {} THEN <<>>
                     ELSE LET d == CHOOSE x \in sent : TRUE
                          IN <<outbox[d][Len(outbox[d])]>>]
  /\ UNCHANGED <<spatialiteEnabled, now, poi_cache, cache_coverage, req>>

Subscribe(c, category) ==
  /\ client[c].st = "new"
  /\ c > 1 => client[c - 1].st # "new"
  /\ connections' = addConnection(connections, category, c)
  /\ client' = [client EXCEPT ![c].st = "open", ![c].category = category]
  /\ UNCHANGED <<spatialiteEnabled, now, poi_cache, cache_coverage, req, outbox>>

\* the request's close event; the aborted event may have fired before it
Close(c) ==
  /\ client[c].st \in {"open", "aborted"}
  /\ connections' = removeConnection(connections, client[c].category, c)
  /\ client' = [client EXCEPT ![c].st = IF @ = "open" THEN "closed" ELSE "ended"]
  /\ UNCHANGED <<spatialiteEnabled, now, poi_cache, cache_coverage, req, outbox>>

\* the request's aborted event; the close event may have fired before it
Aborted(c) ==
  /\ client[c].st \in {"open", "closed"}
  /\ connections' = removeConnection(connections, client[c].category, c)
  /\ client' = [client EXCEPT ![c].st = IF @ = "open" THEN "aborted" ELSE "ended"]
  /\ UNCHANGED <<spatialiteEnabled, now, poi_cache, cache_coverage, req, outbox>>

-----------------------------------------------------------------------------
(* frontend: Map component and useSSEPOIUpdates *)

toString(n) ==
  CASE n = 15 -> "15" [] n = 30 -> "30" [] n = 45 -> "45" [] n = 60 -> "60"

\* SHA-256 of JSON.stringify(isochrone) + selectedDuration.toString()
generatePolygonHash(isochrone, selectedDuration) ==
  LET data == JSONstringify(isochrone) \o <<toString(selectedDuration)>>
  IN Sha256(data)

\* the effect of useSSEPOIUpdates: with a polygon hash set, the hook opens an
\* EventSource on the category's stream, which the server registers
Connect(c, category, isochrone, selectedDuration) ==
  /\ client[c].st = "new"
  /\ c > 1 => client[c - 1].st # "new"
  /\ connections' = addConnection(connections, category, c)
  /\ client' = [client EXCEPT ![c].st = "open", ![c].category = category,
                              ![c].isochrone = isochrone,
                              ![c].selectedDuration = selectedDuration,
                              ![c].currentPolygonHash =
                                 generatePolygonHash(isochrone, selectedDuration)]
  /\ UNCHANGED <<spatialiteEnabled, now, poi_cache, cache_coverage, req, outbox>>

\* the Map component renders again with category, isActive and
\* currentPolygonHash as they were.  handleSSEPOIUpdate is a new function on
\* every render and is one of the effect's dependencies, so the effect runs
\* again: its cleanup closes the EventSource of connection c, and a new
\* EventSource (connection c + 1) is created for the same component
Rerender(c) ==
  /\ client[c].st = "open"
  /\ client[c].currentPolygonHash # NULL
  /\ (c + 1) \in DOMAIN client
  /\ client[c + 1].st = "new"
  /\ connections' = removeConnection(connections, client[c].category, c)
  /\ client' = [client EXCEPT ![c].st = "closed",
                              ![c + 1] = [client[c] EXCEPT !.st = "connecting", !.read = 0]]
  /\ UNCHANGED <<spatialiteEnabled, now, poi_cache, cache_coverage, req, outbox>>

\* the GET of the new EventSource reaches the server, which registers it
Register(c) ==
  /\ client[c].st = "connecting"
  /\ connections' = addConnection(connections, client[c].category, c)
  /\ client' = [client EXCEPT ![c].st = "open"]
  /\ UNCHANGED <<spatialiteEnabled, now, poi_cache, cache_coverage, req, outbox>>

\* Map.handleShowWalkingArea once the isochrone request has resolved: the new
\* isochrone is set (and the hash effect follows it), the POI lists are
\* cleared, and a timer is set that reloads the category if it is checked
handleShowWalkingArea(c, isochrone) ==
  /\ Len(client[c].sent) + Len(client[c].timer) < MaxStreamReqs
  /\ client' = [client EXCEPT
                  ![c].isochrone = isochrone,
                  ![c].currentPolygonHash =
                     generatePolygonHash(isochrone, client[c].selectedDuration),
                  ![c].pois = <<>>,
                  ![c].timer = IF client[c].show THEN Append(@, isochrone) ELSE @]
  /\ UNCHANGED <<spatialiteEnabled, now, poi_cache, cache_coverage, req,
                 connections, outbox>>

\* the timer's callback: getPOIs(result.data, category) is sent for the
\* isochrone the handler received
Reload(c) ==
  /\ client[c].timer # <<>>
  /\ client' = [client EXCEPT ![c].timer = Tail(@),
                              ![c].sent = Append(@, Head(client[c].timer))]
  /\ UNCHANGED <<spatialiteEnabled, now, poi_cache, cache_coverage, req,
                 connections, outbox>>

\* Map.handleCategoryToggle up to its await: the category's flag is flipped
\* and, when it becomes checked with an empty list, getPOIs(isochrone,
\* category) is sent.  The record follows one category of the component.
handleCategoryToggle(c, category) ==
  /\ client[c].isochrone # NULL
  /\ client[c].category \in {"", category}
  /\ LET newState == ~ client[c].show
     IN /\ (newState /\ client[c].pois = <<>>) =>
             Len(client[c].sent) + Len(client[c].timer) < MaxStreamReqs
        /\ client' = [client EXCEPT
                        ![c].category = category,
                        ![c].show = newState,
                        ![c].sent = IF newState /\ client[c].pois = <<>>
                                    THEN Append(@, client[c].isochrone) ELSE @]
  /\ UNCHANGED <<spatialiteEnabled, now, poi_cache, cache_coverage, req,
                 connections, outbox>>

\* the r-th getPOIs of the component reaches POST /api/pois
PostPois(c, r) ==
  /\ r <= Len(client[c].sent)
  /\ Receive(r, client[c].sent[r], client[c].category)

\* the await of getPOIs resumes with the response to the r-th request:
\* setPois(prev => ({...prev, [category]: result.pois})); a failed request is
\* logged by the catch
Arrive(c, r) ==
  /\ r <= Len(client[c].sent)
  /\ r \notin client[c].got
  /\ req[r].resp # NULL
  /\ client' = [client EXCEPT ![c].got = @ \cup {r},
                              ![c].pois = IF req[r].resp.status = 200
                                          THEN req[r].resp.pois ELSE @]
  /\ UNCHANGED <<spatialiteEnabled, now, poi_cache, cache_coverage, req,
                 connections, outbox>>

\* eventSource.onmessage accepts the message data
Accepts(c, data) ==
  /\ data.type = "poi_update"
  /\ data.polygon_hash = client[c].currentPolygonHash
  /\ Len(data.pois) > 0

\* eventSource.onmessage for the next message written to the connection
OnMessage(c) ==
  /\ client[c].st = "open"
  /\ client[c].currentPolygonHash # NULL
  /\ client[c].read < Len(outbox[c])
  /\ LET data == outbox[c][client[c].read + 1]
     IN client' = [client EXCEPT ![c].read = @ + 1,
                                 ![c].shown = IF Accepts(c, data)
                                              THEN Append(@, data.pois) ELSE @]
  /\ UNCHANGED <<spatialiteEnabled, now, poi_cache, cache_coverage, req,
                 connections, outbox>>

-----------------------------------------------------------------------------
(* sseService.js called as server.js calls it *)

\* the POI lists a provider call can return
PoiLists ==
  { [k \in DOMAIN SetToSeq(S) |-> transformElementToPOI(SetToSeq(S)[k])] : S \in SUBSET PoiIds }

\* broadcastPOIUpdates(category, newPOIs, polygon) for the polygon of a request
\* body
Broadcast(body, category, newPOIs, broken) ==
  /\ \A c \in DOMAIN outbox : Len(outbox[c]) < MaxEvents
  /\ broken \subseteq Subscribers(category)
  /\ broadcastPOIUpdates(category, newPOIs, JSONparse(body), broken)
  /\ UNCHANGED <<spatialiteEnabled, now, poi_cache, cache_coverage, req, client>>

-----------------------------------------------------------------------------
(* Environment *)

\* time passes; a request lasts seconds (the provider call times out after
\* 30 s), so no request is in flight across a step of DayStep days
AdvanceClock ==
  /\ \A r \in Reqs : ~InFlight(r)
  /\ now + DayStep <= MaxDay
  /\ now' = now + DayStep
  /\ UNCHANGED <<spatialiteEnabled, poi_cache, cache_coverage, req,
                 connections, client, outbox>>

\* time passes, by d units
Elapse(d) ==
  /\ \A r \in Reqs : ~InFlight(r)
  /\ now + d <= MaxDay
  /\ now' = now + d
  /\ UNCHANGED <<spatialiteEnabled, poi_cache, cache_coverage, req,
                 connections, client, outbox>>

-----------------------------------------------------------------------------

Init ==
  /\ spatialiteEnabled \in BOOLEAN
  /\ now = 0
  /\ poi_cache = <<>>
  /\ cache_coverage = <<>>
  /\ req = [r \in Reqs |-> IdleReq]
  /\ connections = <<>>
  /\ client = [c \in Clients |-> NewClient]
  /\ outbox = [c \in Clients |-> <<>>]

\* the POST /api/pois handlers and the clock
Next ==
  \/ \E r \in Reqs, polygon \in Polygons, category \in RequestCategories :
       Receive(r, polygon, category)
  \/ \E r \in Reqs, eng \in {"ok", "lookup", "op"} : BgStart(r, eng)
  \/ \E r \in Reqs, wr \in {"ok", "fail"} : BgReturn(r, wr)
  \/ \E r \in Reqs, wr \in {"ok", "fail"} : MissReturn(r, wr)
  \/ AdvanceClock

Spec == Init /\ [][Next]_vars

\* what poi_cache.db may hold when the server starts: nothing, or what two
\* requests of an earlier run have left (tile 1 fetched without result, tile 2
\* with the entity that sits there)
StoredTables ==
  { [poi_cache |-> <<>>, cache_coverage |-> <<>>],
    [poi_cache |-> <<[id |-> 1, osm_id |-> 1, category |-> PoiAmenity(1),
                      cell |-> PoiCell(1), tags |-> TagsText(ElementTags(1)),
                      updated_at |-> 0]>>,
     cache_coverage |->
       <<[polygon_geom |-> Blob({1}), category |-> "restaurants",
          poi_count |-> 0, cached_at |-> 0],
         [polygon_geom |-> Blob({PoiCell(1)}), category |-> "restaurants",
          poi_count |-> 1, cached_at |-> 0]>>] }

InitStream ==
  /\ spatialiteEnabled \in BOOLEAN
  /\ now = 0
  /\ \E db \in StoredTables : /\ poi_cache = db.poi_cache
                               /\ cache_coverage = db.cache_coverage
  /\ req = [r \in Reqs |-> IdleReq]
  /\ connections = <<>>
  /\ client = [c \in Clients |-> NewClient]
  /\ outbox = [c \in Clients |-> <<>>]

\* the POST /api/pois handlers with the stream connections
NextStream ==
  \/ \E r \in 1..MaxStreamReqs, polygon \in Polygons, category \in RequestCategories :
       Receive(r, polygon, category)
  \/ \E r \in Reqs, eng \in {"ok", "lookup", "op"} : BgStart(r, eng)
  \/ \E r \in Reqs, wr \in {"ok", "fail"} : BgReturn(r, wr)
  \/ \E r \in Reqs, wr \in {"ok", "fail"} : MissReturn(r, wr)
  \/ AdvanceClock
  \/ \E c \in Clients, category \in Categories : Subscribe(c, category)
  \/ \E c \in Clients : Close(c)

SpecStream == InitStream /\ [][NextStream]_vars

\* the SSE service: connections come and go, updates are broadcast
NextSse ==
  \/ \E c \in Clients, category \in Categories : Subscribe(c, category)
  \/ \E c \in Clients : Close(c)
  \/ \E body \in Bodies, category \in Categories, newPOIs \in PoiLists,
        broken \in SUBSET Clients : Broadcast(body, category, newPOIs, broken)

SpecSse == Init /\ [][NextSse]_vars

\* the SSE service with Map components behind its connections
NextMap ==
  \/ \E c \in Clients, category \in Categories, isochrone \in Polygons,
        selectedDuration \in Durations : Connect(c, category, isochrone, selectedDuration)
  \/ \E c \in Clients : Close(c)
  \/ \E body \in Bodies, category \in Categories, newPOIs \in PoiLists,
        broken \in SUBSET Clients : Broadcast(body, category, newPOIs, broken)
  \/ \E c \in Clients : OnMessage(c)

SpecMap == Init /\ [][NextMap]_vars

\* the SSE service with MaxFanOut connections; the updates are those of the
\* one-tile polygons, their numbers written one way
FanOutClients == 1..MaxFanOut
FanOutBodies == { b \in Bodies : Cardinality(b.cells) = 1 /\ b.fmt = "1" }

InitFanOut ==
  /\ spatialiteEnabled = TRUE
  /\ now = 0
  /\ poi_cache = <<>>
  /\ cache_coverage = <<>>
  /\ req = [r \in Reqs |-> IdleReq]
  /\ connections = <<>>
  /\ client = [c \in FanOutClients |-> NewClient]
  /\ outbox = [c \in FanOutClients |-> <<>>]

NextFanOut ==
  \/ \E c \in FanOutClients, category \in Categories : Subscribe(c, category)
  \/ \E c \in FanOutClients : Close(c)
  \/ \E c \in FanOutClients : Aborted(c)
  \/ \E body \in FanOutBodies, category \in Categories, newPOIs \in PoiLists,
        broken \in SUBSET FanOutClients : Broadcast(body, category, newPOIs, broken)

SpecFanOut == InitFanOut /\ [][NextFanOut]_vars

\* the POST /api/pois handlers with a clock that may show its next value
\* between two statements of a transaction, and with requests that arrive just
\* before or at the end of the freshness window
NextClock ==
  \/ \E r \in 1..MaxStreamReqs, polygon \in Polygons, category \in Categories :
       Receive(r, polygon, category)
  \/ \E r \in Reqs, eng \in {"ok", "lookup", "op"} : BgStart(r, eng)
  \/ \E r \in Reqs, wr \in {"ok", "fail", "tick"} : BgReturn(r, wr)
  \/ \E r \in Reqs, wr \in {"ok", "fail", "tick"} : MissReturn(r, wr)
  \/ \E d \in {FreshDays - 1, FreshDays} : Elapse(d)

SpecClock == Init /\ [][NextClock]_vars

\* one Map component with one useSSEPOIUpdates hook behind the SSE service:
\* it connects, renders again, receives messages and unmounts
NextHook ==
  \/ \E category \in Categories, isochrone \in Polygons, selectedDuration \in Durations :
       Connect(1, category, isochrone, selectedDuration)
  \/ \E c \in FanOutClients : Rerender(c)
  \/ \E c \in FanOutClients : Register(c)
  \/ \E c \in FanOutClients : Close(c)
  \/ \E body \in FanOutBodies, category \in Categories, newPOIs \in PoiLists,
        broken \in SUBSET FanOutClients : Broadcast(body, category, newPOIs, broken)
  \/ \E c \in FanOutClients : OnMessage(c)

SpecHook == InitFanOut /\ [][NextHook]_vars

\* the Map component choosing walking areas and toggling a category, with
\* the POST /api/pois handlers answering its requests
NextArea ==
  \/ \E c \in Clients, isochrone \in Polygons : handleShowWalkingArea(c, isochrone)
  \/ \E c \in Clients : Reload(c)
  \/ \E c \in Clients, category \in Categories : handleCategoryToggle(c, category)
  \/ \E c \in Clients, r \in 1..MaxStreamReqs : PostPois(c, r)
  \/ \E r \in 1..MaxStreamReqs : BgStart(r, "ok")
  \/ \E r \in 1..MaxStreamReqs, wr \in {"ok", "fail"} : BgReturn(r, wr)
  \/ \E r \in 1..MaxStreamReqs, wr \in {"ok", "fail"} : MissReturn(r, wr)
  \/ \E c \in Clients, r \in 1..MaxStreamReqs : Arrive(c, r)

SpecArea == InitStream /\ [][NextArea]_vars

\* orsService.getIsochrone(lat, lng): the body posted to the isochrone
\* provider; range is in seconds (range_type "time").  A third argument is
\* not among its parameters.
getIsochrone(lat, lng) ==
  [locations |-> <<<<lng, lat>>>>, range |-> <<1800>>, range_type |-> "time"]

\* coordinates and durations a body of POST /api/isochrone can carry; 0 is a
\* missing (or zero) field, 20 a duration outside the accepted ones
IsochroneLats == 0..2
IsochroneDurations == Durations \cup {0, 20}

\* POST /api/isochrone: the validation, the provider call and the response;
\* ok tells whether the provider answered
CallIsochrone(r, lat, lng, duration, ok) ==
  /\ req[r].pc = "idle"
  /\ r > 1 => req[r - 1].pc # "idle"
  /\ LET call == [pc |-> "called", lat |-> lat, lng |-> lng, duration |-> duration,
                  asked |-> <<>>, status |-> 400]
     IN IF lat = 0 \/ lng = 0
        THEN req' = [req EXCEPT ![r] = call]
        ELSE IF duration = 0 \/ duration \notin {15, 30, 45, 60}
             THEN req' = [req EXCEPT ![r] = call]
             ELSE req' = [req EXCEPT ![r] =
                            [call EXCEPT !.asked = <<getIsochrone(lat, lng)>>,
                                         !.status = IF ok THEN 200 ELSE 500]]
  /\ UNCHANGED <<spatialiteEnabled, now, poi_cache, cache_coverage,
                 connections, client, outbox>>

NextIsochrone ==
  \E r \in 1..MaxStreamReqs, lat \in IsochroneLats, lng \in IsochroneLats,
     duration \in IsochroneDurations, ok \in BOOLEAN :
    CallIsochrone(r, lat, lng, duration, ok)

SpecIsochrone == Init /\ [][NextIsochrone]_vars

\* the POST /api/pois handlers over a database with overlapping coverage
\* rows, with a statement of the union or of the difference failing
NextUnion ==
  \/ \E r \in 1..MaxStreamReqs, polygon \in Polygons, category \in Categories :
       Receive(r, polygon, category)
  \/ \E r \in 1..MaxStreamReqs, eng \in {"ok", "op", "union"} : BgStart(r, eng)
  \/ \E r \in 1..MaxStreamReqs, wr \in {"ok", "fail"} : BgReturn(r, wr)
  \/ \E r \in 1..MaxStreamReqs, wr \in {"ok", "fail"} : MissReturn(r, wr)

SpecUnion == InitStream /\ [][NextUnion]_vars

\* the POST /api/pois handlers for requests of one category, enough of them
\* for a background refill to find several coverage rows
NextRefill ==
  \/ \E r \in Reqs, polygon \in Polygons : Receive(r, polygon, "restaurants")
  \/ \E r \in Reqs, eng \in {"ok", "lookup", "op"} : BgStart(r, eng)
  \/ \E r \in Reqs, wr \in {"ok", "fail"} : BgReturn(r, wr)
  \/ \E r \in Reqs, wr \in {"ok", "fail"} : MissReturn(r, wr)

SpecRefill == Init /\ [][NextRefill]_vars

\* the provider gateway called on its own: request r stands for one call of
\* overpassProvider.getPOIs, kept with the response it received
CallGetPOIs(r, polygon, category, response) ==
  /\ req[r].pc = "idle"
  /\ r > 1 => req[r - 1].pc # "idle"
  /\ req' = [req EXCEPT ![r] = [pc |-> "called", polygon |-> polygon,
                                 category |-> category, response |-> response,
                                 result |-> getPOIs(response)]]
  /\ UNCHANGED <<spatialiteEnabled, now, poi_cache, cache_coverage,
                 connections, client, outbox>>

NextOverpass ==
  \E r \in 1..MaxStreamReqs, polygon \in Polygons, category \in Categories :
    \E response \in OverpassResponses(polygon, CATEGORIES[category]) :
      CallGetPOIs(r, polygon, category, response)

SpecOverpass == Init /\ [][NextOverpass]_vars

\* a ring that encloses nothing: fewer than four points, no area, or not
\* closed.  polygonToWKT writes it like any other ring; ST_GeomFromText gives
\* NULL or a geometry without area for it, and no point is within either
DegenerateRings == { GeoPolygon({}, FALSE) }

\* the POST /api/pois handlers, for request bodies that may hold such a ring
NextRings ==
  \/ \E r \in 1..MaxStreamReqs, polygon \in Polygons \cup DegenerateRings,
        category \in RequestCategories : Receive(r, polygon, category)
  \/ \E r \in Reqs, eng \in {"ok", "lookup", "op"} : BgStart(r, eng)
  \/ \E r \in Reqs, wr \in {"ok", "fail"} : BgReturn(r, wr)
  \/ \E r \in Reqs, wr \in {"ok", "fail"} : MissReturn(r, wr)
  \/ AdvanceClock

SpecRings == Init /\ [][NextRings]_vars

-----------------------------------------------------------------------------
(* Properties *)

Started(r) == req[r].pre # NotYet

\* the requests that arrived before request r (Receive takes them in order)
StartedBefore(r) == 1..(r - 1)

\* request s follows request r at once: when s arrived, r was the only request
\* before it, r was done, and no time had passed
Follows(s, r) ==
  /\ s # r
  /\ Started(s) /\ Started(r)
  /\ StartedBefore(s) = {r} /\ req[s].pre.done = {r}
  /\ req[s].pre.at = req[r].pre.at
  /\ req[s].polygon = req[r].polygon /\ req[s].category = req[r].category

\* request r was the first (the cache was empty) and its provider call
\* returned n >= 1 POIs, which were cached
FirstFetched(r) ==
  /\ Started(r) /\ StartedBefore(r) = {}
  /\ req[r].pc = "done" /\ req[r].got = "ok" /\ req[r].n >= 1

\* C1: from an empty cache, a request for (P, C) whose provider call returns
\* n >= 1 POIs (and whose cache write succeeds) is answered cached:false with
\* count n; the request for the same (P, C) that follows at once is answered
\* cached:true with count n and passes nothing to the provider, neither on
\* the response path nor (the spatial engine working) in the background.
C1_FetchThenCachedRepeat ==
  \A r \in Reqs : FirstFetched(r) =>
    /\ req[r].resp # NULL /\ req[r].resp.status = 200
    /\ req[r].resp.cached = FALSE /\ req[r].resp.count = req[r].n
    /\ \A s \in Reqs : Follows(s, r) =>
         /\ req[s].resp # NULL /\ req[s].resp.status = 200
         /\ req[s].resp.cached = TRUE /\ req[s].resp.count = req[r].n
         /\ req[s].eng # "op" => req[s].fetched = <<>>

C1_Witness ==
  \E r \in Reqs, s \in Reqs :
    /\ FirstFetched(r) /\ Follows(s, r)
    /\ req[s].pc = "done" /\ req[s].eng = "ok" /\ req[s].area = NULL
    /\ req[s].resp.count = NPois

OsmIds(rows) == { rows[i].osm_id : i \in DOMAIN rows }

\* C2: cachePOIs is an upsert per osm_id: poi_cache never holds two rows
\* with the same osm_id, so getCachedPOIs(P, C) never returns the same
\* osm_id twice, for any polygon P and category C.
C2_NoOsmIdTwice ==
  \A polygon \in Polygons, category \in Categories :
    LET rows == getCachedPOIs(polygon, category)
    IN Cardinality(OsmIds(rows)) = Len(rows)

\* the remainder was computed for request r, by a working engine, when the
\* polygon was partly inside and partly outside fresh coverage
PartlyCovered(r) ==
  /\ req[r].area # NotYet /\ req[r].eng = "ok"
  /\ req[r].remainder # {} /\ req[r].remainder # req[r].polygon.cells

\* C3: for a request whose polygon P2 partly overlaps fresh coverage of its
\* category (taken where the spec computes a remainder: cached POIs exist),
\* the one geometry passed to the provider is the remainder P2 minus the
\* coverage, which is smaller than P2.
C3_PartialOverlapFetchesRemainder ==
  \A r \in Reqs : PartlyCovered(r) =>
    req[r].fetched = <<GeoPolygon(req[r].remainder, FALSE)>>

\* C4: with spatial support, a non-null result of getUncachedArea(P, C) is P
\* minus the union of the fresh coverage of C: all of the uncovered tiles and
\* no other, with no corrupt coordinate, also when they form several parts.
C4_UncachedAreaIsDifference ==
  \A r \in Reqs :
    (req[r].area # NotYet /\ req[r].area # NULL /\ req[r].eng = "ok") =>
      req[r].area = GeoPolygon(req[r].remainder, FALSE)

\* C5: getUncachedArea(P, C) returns null if and only if the union of the
\* fresh coverage of C contains P.
C5_NullIffCovered ==
  \A r \in Reqs :
    (req[r].area # NotYet /\ req[r].eng = "ok") =>
      (req[r].area = NULL <=> req[r].remainder = {})

\* C6: a request whose polygon lies inside the union of the fresh coverage of
\* its category passes nothing to the provider, however many cached POIs lie
\* inside the polygon (zero included).
C6_CoveredRequestFetchesNothing ==
  \A r \in Reqs :
    (Started(r) /\ req[r].pre.remainder = {} /\ req[r].eng # "op") =>
      req[r].fetched = <<>>

\* C7: when the provider call (or the cache write after it) fails on the
\* cache-miss path, the response is the error response and poi_cache and
\* cache_coverage are left exactly as they were.
C7_MissFailureWritesNothing ==
  [][ \A r \in Reqs :
        (req[r].pc = "miss_fetch" /\ req'[r].pc = "done" /\ req'[r].got = "failed") =>
          /\ req'[r].resp = ErrorResponse
          /\ poi_cache' = poi_cache
          /\ cache_coverage' = cache_coverage ]_vars

C7_Witness ==
  \E r \in Reqs :
    /\ req[r].pc = "done" /\ req[r].got = "failed" /\ req[r].area = NotYet
    /\ req[r].resp = ErrorResponse
    /\ Len(cache_coverage) > 0 /\ Len(poi_cache) > 0

C9_CachedResponseFirst ==
  [][ \A r \in Reqs :
        /\ (req[r].pc = "idle" /\ req'[r].pc = "bg_pending") =>
             /\ req'[r].resp = PoisResponse(getCachedPOIs(req'[r].polygon, req'[r].category),
                                            req'[r].category, TRUE)
             /\ req'[r].area = NotYet /\ req'[r].fetched = <<>>
        /\ req[r].pc \in {"bg_pending", "bg_fetch"} => req'[r].resp = req[r].resp ]_vars

C9_Witness ==
  \E r \in Reqs :
    /\ req[r].pc = "done" /\ req[r].resp # NULL /\ req[r].resp.status = 200
    /\ req[r].resp.cached = TRUE /\ req[r].got = "ok" /\ req[r].n > 0
    /\ Len(poi_cache) > Len(req[r].resp.pois)

\* C10: every request whose provider call succeeded (and whose cache write
\* did not fail) has a coverage row for the geometry it fetched, whatever the
\* number of POIs returned (zero included).
C10_FetchRecordsCoverage ==
  \A r \in Reqs :
    (req[r].pc = "done" /\ req[r].got = "ok") =>
      \E i \in DOMAIN cache_coverage :
        /\ cache_coverage[i].polygon_geom = ST_GeomFromText(polygonToWKT(req[r].fetched[1]))
        /\ cache_coverage[i].category = req[r].category
        /\ cache_coverage[i].poi_count = req[r].n

\* the number of poi_cache rows written by the first k cachePOIs calls
RECURSIVE SumCounts(_)
SumCounts(k) == IF k = 0 THEN 0 ELSE SumCounts(k - 1) + cache_coverage[k].poi_count

\* the poi_cache rows written by the cachePOIs call of coverage row j
RowsOf(j) == (SumCounts(j - 1) + 1)..SumCounts(j)

IsPrefix(s, t) == Len(s) <= Len(t) /\ \A i \in DOMAIN s : t[i] = s[i]

\* C12: no step deletes or alters a coverage row, and while the clock stands
\* still a polygon inside the fresh coverage of a category stays inside it.
C12_CoverageMonotone ==
  [][ /\ IsPrefix(cache_coverage, cache_coverage')
      /\ now' = now =>
            \A polygon \in Polygons, category \in Categories :
              Remainder(polygon, category) = {} => Remainder(polygon, category)' = {} ]_vars

C12_Witness ==
  /\ Len(cache_coverage) = MaxReqs
  /\ cache_coverage[1].category = cache_coverage[2].category
  /\ cache_coverage[1].polygon_geom.cells \cap cache_coverage[2].polygon_geom.cells = {}
  /\ cache_coverage[3].polygon_geom.cells = Cells
  /\ Remainder(GeoPolygon(cache_coverage[1].polygon_geom.cells, FALSE),
               cache_coverage[1].category) = {}

\* requests r and s ran side by side for the same polygon and category, both
\* missed the cache, both fetched and cached
ConcurrentMisses(r, s) ==
  /\ r < s /\ Started(r) /\ Started(s)
  /\ r \notin req[s].pre.done
  /\ req[r].polygon = req[s].polygon /\ req[r].category = req[s].category
  /\ \A q \in {r, s} : /\ req[q].pc = "done" /\ req[q].got = "ok"
                        /\ req[q].area = NotYet

\* C13: after two concurrent cache misses for the same (P, C) have both
\* fetched and cached, getCachedPOIs(P, C) holds every osm_id once and P is
\* inside the coverage.
C13_ConcurrentMissesAbsorbed ==
  \A r \in Reqs, s \in Reqs :
    (ConcurrentMisses(r, s) /\ req[s].pre.at = now) =>
      LET rows == getCachedPOIs(req[r].polygon, req[r].category)
      IN /\ Cardinality(OsmIds(rows)) = Len(rows)
         /\ Remainder(req[r].polygon, req[r].category) = {}

\* request r committed a cachePOIs call (the background path caches only a
\* non-empty result)
Cached(r) ==
  /\ req[r].pc = "done" /\ req[r].got = "ok"
  /\ req[r].area = NotYet \/ req[r].n > 0

\* what the cachePOIs call of request r put into cache_coverage
CoverageOf(r) ==
  [geom |-> ST_GeomFromText(polygonToWKT(req[r].fetched[1])),
   category |-> req[r].category, poi_count |-> req[r].n]

RowKey(c) == [geom |-> c.polygon_geom, category |-> c.category, poi_count |-> c.poi_count]

\* C14: whatever the order in which concurrent fetches complete,
\* cache_coverage holds one row per committed cachePOIs call, none lost or
\* overwritten, so the covered region of a category is the union of the
\* geometries whose fetch was cached.
C14_CoverageIsUnionOfCached ==
  /\ Len(cache_coverage) = Cardinality({ r \in Reqs : Cached(r) })
  /\ \A r \in Reqs : Cached(r) =>
       Cardinality({ i \in DOMAIN cache_coverage : RowKey(cache_coverage[i]) = CoverageOf(r) })
         = Cardinality({ q \in Reqs : Cached(q) /\ CoverageOf(q) = CoverageOf(r) })
  /\ \A category \in Categories :
       UNION { cache_coverage[i].polygon_geom.cells :
                 i \in { j \in DOMAIN cache_coverage : cache_coverage[j].category = category } }
         = UNION { req[r].fetched[1].cells :
                     r \in { q \in Reqs : Cached(q) /\ req[q].category = category } }

\* a later request completed its fetch before an earlier one, for the same
\* region, and a background refill was cached as well
C14_Witness ==
  \E r \in Reqs, s \in Reqs, b \in Reqs :
    /\ r < s /\ Cached(r) /\ Cached(s) /\ r \notin req[s].pre.done
    /\ CoverageOf(r).geom = CoverageOf(s).geom /\ req[r].category = req[s].category
    /\ req[r].n # req[s].n
    /\ RowKey(cache_coverage[1]) = CoverageOf(s)
    /\ Cached(b) /\ req[b].area # NotYet

\* the last message written to connection c
LastWritten(c) == outbox[c][Len(outbox[c])]

\* C15: a message is written to a stream connection only in the step in
\* which the background refill of a cached hit returns at least one POI and
\* caches it, and only to subscribers of that request's category; receiving
\* a request, a null remainder, a refill without POIs, a failed refill and
\* the miss branch write nothing.
C15_OnlyRefillPushes ==
  [][ \A c \in Clients : outbox'[c] # outbox[c] =>
        \E r \in Reqs :
          /\ req[r].pc = "bg_fetch" /\ req'[r].pc = "done"
          /\ req[r].resp.cached = TRUE /\ req[r].area # NULL
          /\ req'[r].got = "ok" /\ req'[r].n >= 1
          /\ Len(poi_cache') = Len(poi_cache) + req'[r].n
          /\ c \in Subscribers(req[r].category)
          /\ Len(outbox'[c]) = Len(outbox[c]) + 1
          /\ LastWritten(c)'.category = req[r].category
          /\ LastWritten(c)'.count = req'[r].n ]_vars

\* a subscriber of restaurants got the POI found in the remainder of a cached
\* hit; before it a miss and a hit with null remainder went by
C15_Witness ==
  \E c \in Clients, r \in Reqs, s \in Reqs :
    /\ Len(outbox[c]) = 1 /\ outbox[c][1].count = 1
    /\ client[c].st = "open" /\ client[c].category = "restaurants"
    /\ req[r].pc = "done" /\ req[r].eng = "ok" /\ req[r].got = "ok" /\ req[r].n = 1
    /\ req[r].area # NotYet /\ req[r].area # NULL /\ req[r].area.cells # req[r].polygon.cells
    /\ req[s].pc = "done" /\ req[s].category = "restaurants"
    /\ req[s].area = NotYet /\ req[s].got = "ok"

\* the fingerprint an update for (polygon, category) carries
EventFingerprint(polygon, category) == updateData(category, <<>>, polygon).polygon_hash

\* C16: the fingerprint of a published update equals
\* hashPolygon(polygon, category) for the polygon and category it was
\* published for.
C16_EventCarriesCodecFingerprint ==
  [][ \A body \in Bodies, category \in Categories, newPOIs \in PoiLists,
         broken \in SUBSET Clients :
        Broadcast(body, category, newPOIs, broken) =>
          \A c \in Clients : outbox'[c] # outbox[c] =>
            LastWritten(c)'.polygon_hash = hashPolygon(JSONparse(body), category) ]_vars

\* the messages connection c has read
ReadBy(c) == SubSeq(outbox[c], 1, client[c].read)

\* C17: a Map component showing polygon P for category C has handed to
\* onPOIUpdate the POIs of exactly those messages it read that were published
\* for P (C is the category of its stream), and of no other.
C17_SubscriberAcceptsOwnPolygon ==
  \A c \in Clients : client[c].currentPolygonHash # NULL =>
    LET own(data) == data.polygon_hash =
                       EventFingerprint(client[c].isochrone, client[c].category)
        mine == SelectSeq(ReadBy(c), own)
    IN client[c].shown = [i \in DOMAIN mine |-> mine[i].pois]

\* C18: the fingerprint of a published update tells its polygon and its
\* category: exactly one pair (polygon, category) has the fingerprint a
\* written message carries.
C18_FingerprintTellsPolygonAndCategory ==
  \A c \in Clients : \A i \in DOMAIN outbox[c] :
    Cardinality({ pc \in Polygons \X Categories :
                    EventFingerprint(pc[1], pc[2]) = outbox[c][i].polygon_hash }) = 1

C21_BrokenWriteRemovesOnlyThatSubscriber ==
  [][ \A category \in Categories, broken \in SUBSET FanOutClients :
        (client' = client /\ broken # {} /\ broken \subseteq Subscribers(category)) =>
          \A body \in FanOutBodies, newPOIs \in PoiLists \ {<<>>} :
            Broadcast(body, category, newPOIs, broken) =>
              LET after(k) == IF k \in DOMAIN connections' THEN connections'[k] ELSE {}
              IN /\ after(category) = Subscribers(category) \ broken
                 /\ \A k \in Categories \ {category} : after(k) = Subscribers(k)
                 /\ \A c \in broken : outbox'[c] = outbox[c]
                 /\ \A c \in Subscribers(category) \ broken :
                      outbox'[c] = Append(outbox[c],
                                          updateData(category, newPOIs, JSONparse(body))) ]_vars

\* connection 2 was removed by a throwing write (its request has not ended)
\* in a broadcast that connection 1, of the same category, received
C21_Witness ==
  /\ client[1].st = "open" /\ client[2].st = "open"
  /\ client[1].category = client[2].category
  /\ 1 \in Subscribers(client[1].category)
  /\ 2 \notin Subscribers(client[2].category)
  /\ outbox[2] = <<>>
  /\ Len(outbox[1]) = MaxEvents

\* C22: a message is written only by the broadcast that carries it, once,
\* and only to connections registered when that broadcast runs: a connection
\* has an empty stream when it registers, and a stream grows by exactly one
\* message, in a step in which its connection was already registered.
C22_NoReplay ==
  [][ \A c \in FanOutClients :
        /\ client[c].st = "new" => outbox'[c] = <<>>
        /\ outbox'[c] # outbox[c] =>
             /\ client[c].st = "open"
             /\ c \in Subscribers(client[c].category)
             /\ client' = client
             /\ Len(outbox'[c]) = Len(outbox[c]) + 1
             /\ SubSeq(outbox'[c], 1, Len(outbox[c])) = outbox[c] ]_vars

\* connection 2 registered under a category after messages of that category
\* went to connection 1, and has received none of them
C22_Witness ==
  /\ client[1].st = "open" /\ client[2].st = "open"
  /\ client[1].category = client[2].category
  /\ 2 \in Subscribers(client[2].category)
  /\ Len(outbox[1]) = MaxEvents
  /\ outbox[2] = <<>>

\* C23: when the close or the aborted event of a connection fires, that
\* connection and no other leaves the registry (when the other event has fired
\* before, nothing changes); and nothing is written to a connection after
\* either event.
C23_ClosedIsRemoved ==
  [][ \A c \in FanOutClients :
        LET after(k) == IF k \in DOMAIN connections' THEN connections'[k] ELSE {}
            over(st) == st \in {"closed", "aborted", "ended"}
        IN /\ (client'[c].st # client[c].st /\ over(client'[c].st)) =>
                /\ \A k \in Categories : after(k) = Subscribers(k) \ {c}
                /\ over(client[c].st) => connections' = connections
           /\ over(client'[c].st) => \A k \in Categories : c \notin after(k)
           /\ over(client[c].st) => outbox'[c] = outbox[c] ]_vars

\* both events of connection 1 have fired; connection 2, registered after it
\* under the same category, is still registered and has been written more
C23_Witness ==
  /\ client[1].st = "ended" /\ client[2].st = "open"
  /\ client[1].category = client[2].category
  /\ 2 \in Subscribers(client[2].category)
  /\ Len(outbox[1]) = 1
  /\ Len(outbox[2]) = MaxEvents

\* C24: a request whose polygon ring is degenerate is answered with the error
\* response, passes nothing to the provider, and the tables stay as they were
\* when it arrived.
C24_DegenerateRingRejected ==
  \A r \in Reqs :
    (req[r].pc # "idle" /\ req[r].polygon \in DegenerateRings) =>
      /\ req[r].pc = "done"
      /\ req[r].resp = ErrorResponse
      /\ req[r].fetched = <<>>
      /\ req[r].got # "ok"

\* C25: the step that takes in a request whose category is not configured
\* ends the request with the error response; nothing was passed to the
\* provider, and the step leaves the tables, the registry and every stream as
\* they were.  A request that has ended never changes again.
C25_UnknownCategoryRejected ==
  [][ \A r \in Reqs :
        /\ (req'[r] # req[r] /\ req'[r].category \notin Categories) =>
             /\ req'[r].pc = "done"
             /\ req'[r].resp = ErrorResponse
             /\ req'[r].fetched = <<>>
             /\ req'[r].got = "none"
             /\ UNCHANGED <<poi_cache, cache_coverage, connections, outbox>>
        /\ req[r].pc = "done" => req'[r] = req[r] ]_vars

\* SpatiaLite is loaded, a connection is registered, and a request for the
\* category "shops" has been answered with the error response
C25_Witness ==
  /\ spatialiteEnabled
  /\ \E c \in Clients : c \in Subscribers(client[c].category) /\ outbox[c] = <<>>
  /\ \E r \in Reqs :
       /\ req[r].category = "shops" /\ req[r].pc = "done"
       /\ req[r].resp = ErrorResponse /\ req[r].fetched = <<>>

\* C26: without SpatiaLite a request for a configured category still passes
\* its polygon to the provider and is answered with the error response only
\* when the provider call or the cache write after it failed.
C26_FallbackStillServes ==
  \A r \in Reqs :
    (~spatialiteEnabled /\ req[r].pc # "idle" /\ req[r].category \in Categories) =>
      /\ req[r].fetched # <<>>
      /\ req[r].fetched[1] = req[r].polygon
      /\ req[r].resp = ErrorResponse => req[r].got = "failed"

\* C27: when a statement of getUncachedArea fails (the coverage lookup, the
\* union or the difference), the call returns the request's whole polygon,
\* which the background work then passes to the provider.
C27_EngineFailureReturnsPolygon ==
  \A r \in Reqs :
    (req[r].pc \in {"bg_fetch", "done"} /\ req[r].eng # "ok") =>
      /\ req[r].area = req[r].polygon
      /\ Len(req[r].fetched) = 1 /\ req[r].fetched[1] = req[r].polygon

\* request r took the miss branch and has been answered
MissDone(r) ==
  /\ req[r].pc = "done" /\ req[r].pre # NotYet
  /\ req[r].cachedPOIs = <<>> /\ req[r].area = NotYet

\* C28: a request of the miss branch whose provider call returned no POI (and
\* whose cache write went through) is answered 200 with an empty list,
\* count 0 and cached false; one whose provider call failed is answered with
\* the error response, which has another status and no POI list.
C28_EmptyResultIsSuccess ==
  \A r \in Reqs :
    MissDone(r) =>
      /\ (req[r].got = "ok" /\ req[r].n = 0) =>
           /\ req[r].resp = [status |-> 200, pois |-> <<>>, category |-> req[r].category,
                              count |-> 0, cached |-> FALSE]
           /\ req[r].resp # ErrorResponse
      /\ req[r].got = "failed" =>
           /\ req[r].resp.status = 500
           /\ "pois" \notin DOMAIN req[r].resp

\* one request of the miss branch got an empty result, another a failure
C28_Witness ==
  \E r \in Reqs, s \in Reqs :
    /\ MissDone(r) /\ req[r].got = "ok" /\ req[r].n = 0
    /\ req[r].resp.status = 200 /\ req[r].resp.count = 0
    /\ MissDone(s) /\ req[s].got = "failed" /\ req[s].resp = ErrorResponse
    /\ req[s].polygon = req[r].polygon /\ req[s].category = req[r].category

\* C29: every row getCachedPOIs returns and every row the coverage lookup
\* uses is at most FreshDays old, and a POI row is fresh exactly when the
\* coverage row written by the same cachePOIs call is.
C29_SameWindow ==
  /\ \A polygon \in Polygons, category \in Categories :
       /\ \A i \in DOMAIN getCachedPOIs(polygon, category) :
            getCachedPOIs(polygon, category)[i].updated_at > now - FreshDays
       /\ \A i \in DOMAIN overlappingCoverage(polygon, category) :
            overlappingCoverage(polygon, category)[i].cached_at > now - FreshDays
  /\ \A j \in DOMAIN cache_coverage : \A i \in RowsOf(j) :
       Fresh(poi_cache[i].updated_at) <=> Fresh(cache_coverage[j].cached_at)

\* C30: a call of the gateway that received a response with elements
\* returns, in the response's order, one POI for each element that has
\* coordinates and none for the others; a POI carries its element's name, or
\* "Unnamed" when the element has none.  A call whose POST was rejected or
\* whose response has no elements raises an error and returns no list.
C30_GatewayFiltersAndNames ==
  \A r \in Reqs :
    req[r].pc = "called" =>
      LET response == req[r].response
          result == req[r].result
          hasCoordinates(i) == i \in PoiIds
          kept == SelectSeq(response.elements, hasCoordinates)
      IN IF response.kind = "ok"
         THEN /\ result.ok
              /\ Len(result.pois) = Len(kept)
              /\ \A k \in DOMAIN result.pois :
                   /\ result.pois[k].id = kept[k]
                   /\ result.pois[k].cell = PoiCell(kept[k])
                   /\ result.pois[k].name =
                        (IF ElementName(kept[k]) = "" THEN "Unnamed"
                         ELSE ElementName(kept[k]))
         ELSE ~result.ok /\ result.pois = <<>>

\* a response listed a nameless entity with coordinates and an entity without
\* coordinates; the call returned the first one alone, named "Unnamed"
C30_Witness ==
  \E r \in Reqs :
    /\ req[r].pc = "called" /\ req[r].response.kind = "ok"
    /\ Len(req[r].response.elements) = 2
    /\ \E k \in 1..2 : req[r].response.elements[k] \in Unlocated
    /\ req[r].result.ok /\ Len(req[r].result.pois) = 1
    /\ req[r].result.pois[1].name = "Unnamed"

\* C31: every coverage row was written by the cachePOIs call of a request
\* whose provider call succeeded: its geometry is the geometry that request
\* passed to the provider, its category that request's, and the POI rows of
\* the same call (as many as the provider returned) lie inside it; the fresh
\* coverage of a category holds no tile outside the geometries fetched for it.
C31_CoverageSound ==
  /\ \A j \in DOMAIN cache_coverage :
       /\ \E r \in Reqs :
            /\ Cached(r) /\ Len(req[r].fetched) = 1
            /\ cache_coverage[j].polygon_geom = ST_GeomFromText(polygonToWKT(req[r].fetched[1]))
            /\ cache_coverage[j].category = req[r].category
            /\ cache_coverage[j].poi_count = req[r].n
       /\ RowsOf(j) \subseteq DOMAIN poi_cache
       /\ \A i \in RowsOf(j) :
            /\ ST_Within(poi_cache[i].cell, cache_coverage[j].polygon_geom)
            /\ poi_cache[i].category \in CATEGORIES[cache_coverage[j].category]
  /\ \A category \in Categories :
       FreshCoverage(category) \subseteq
         UNION { req[r].fetched[1].cells :
                   r \in { q \in Reqs : Cached(q) /\ req[q].category = category } }

\* the background refill of a request fetched and cached a remainder smaller
\* than the request's polygon
C31_Witness ==
  \E r \in Reqs :
    /\ Cached(r) /\ req[r].area # NotYet /\ req[r].area # req[r].polygon
    /\ \E j \in DOMAIN cache_coverage :
         /\ cache_coverage[j].polygon_geom = ST_GeomFromText(polygonToWKT(req[r].area))
         /\ cache_coverage[j].poi_count > 0

\* C32: in a step that writes a message to a connection, the step has
\* committed one cachePOIs call: one new coverage row whose poi_count is the
\* message's count, and the message's POIs as the new rows of poi_cache; a
\* step that leaves the tables unchanged writes no message.
C32_PublishAfterCommit ==
  [][ \A c \in Clients :
        outbox'[c] # outbox[c] =>
          LET data == outbox'[c][Len(outbox'[c])]
              k == Len(poi_cache)
          IN /\ Len(cache_coverage') = Len(cache_coverage) + 1
             /\ cache_coverage'[Len(cache_coverage')].poi_count = data.count
             /\ cache_coverage'[Len(cache_coverage')].category = data.category
             /\ Len(poi_cache') = k + data.count
             /\ \A i \in 1..data.count : poi_cache'[k + i].osm_id = data.pois[i].id ]_vars

\* a connection holds a message whose POIs are in poi_cache, and the
\* background refill of another request has ended in a failure without message
C32_Witness ==
  \E c \in Clients :
    /\ Len(outbox[c]) = 1
    /\ \A i \in DOMAIN outbox[c][1].pois :
         \E k \in DOMAIN poi_cache : poi_cache[k].osm_id = outbox[c][1].pois[i].id
    /\ \E r \in Reqs : /\ req[r].pc = "done" /\ req[r].area # NotYet
                        /\ req[r].got = "failed" /\ req[r].logged
                        /\ req[r].category = outbox[c][1].category

\* the provider ids of a list of POIs as the provider returns them
PoiIdsOf(pois) == { pois[i].id : i \in DOMAIN pois }

\* C33: the POIs of a message written to a connection are new to it: none
\* was carried by an earlier message on that connection, and none was in the
\* cached response of the request whose background refill publishes the
\* message.
C33_NoPoiPushedTwice ==
  [][ \A c \in Clients :
        outbox'[c] # outbox[c] =>
          LET data == outbox'[c][Len(outbox'[c])]
          IN /\ \A m \in DOMAIN outbox[c] :
                  PoiIdsOf(data.pois) \cap PoiIdsOf(outbox[c][m].pois) = {}
             /\ \A r \in Reqs :
                  req'[r] # req[r] =>
                    PoiIdsOf(data.pois) \cap OsmIds(req[r].cachedPOIs) = {} ]_vars

\* C34: a POI of a cached:true response has the id and the tags that the
\* provider's POI with the same provider id had in a cached:false response.
C34_CachedPoiIsSamePoi ==
  \A r \in Reqs, s \in Reqs :
    (/\ MissDone(r) /\ req[r].got = "ok"
     /\ req[s].resp # NULL /\ req[s].resp.status = 200 /\ req[s].resp.cached) =>
      \A i \in DOMAIN req[r].resp.pois, k \in DOMAIN req[s].resp.pois :
        req[s].resp.pois[k].osm_id = req[r].resp.pois[i].id =>
          /\ req[s].resp.pois[k].id = req[r].resp.pois[i].id
          /\ req[s].resp.pois[k].tags = req[r].resp.pois[i].tags

\* C35: after every step the registry holds no category with an empty set
\* of connections; and the step in which a connection registers adds that
\* connection, which was not registered, to its category and removes none.
C35_RegistryWellFormed ==
  [][ LET after(k) == IF k \in DOMAIN connections' THEN connections'[k] ELSE {}
      IN /\ \A k \in DOMAIN connections' : connections'[k] # {}
         /\ \A c \in FanOutClients :
              (client[c].st = "new" /\ client'[c].st = "open") =>
                /\ \A k \in Categories : c \notin Subscribers(k)
                /\ after(client'[c].category) = Subscribers(client'[c].category) \cup {c}
                /\ \A k \in Categories \ {client'[c].category} : after(k) = Subscribers(k) ]_vars

\* two connections are registered under one category, the other category has
\* no key, and a message has been broadcast to both
C35_Witness ==
  /\ \E k \in Categories : connections = [j \in {k} |-> FanOutClients]
  /\ \A c \in FanOutClients : Len(outbox[c]) = 1

\* C36: a step that leaves the component with the same category and polygon
\* hash and still wanting a connection does not end its open connection.
C36_ConnectionKeptAcrossRenders ==
  [][ \A c \in FanOutClients :
        (client[c].st = "open" /\ client'[c].st # "open") =>
          \A d \in FanOutClients :
            (client[d].st = "new" /\ client'[d].st # "new") =>
              ~ /\ client'[d].category = client[c].category
                /\ client'[d].currentPolygonHash = client[c].currentPolygonHash ]_vars

\* C37: the response to a POI request that was issued for another isochrone
\* than the current one does not change the displayed POI list.
C37_StaleResponseIgnored ==
  [][ \A c \in Clients, r \in 1..MaxStreamReqs :
        ( /\ r <= Len(client[c].sent)
          /\ r \notin client[c].got
          /\ r \in client'[c].got
          /\ client[c].sent[r] # client[c].isochrone ) =>
            client'[c].pois = client[c].pois ]_vars

\* C38: for a request the isochrone endpoint accepted, the travel-time range
\* asked of the isochrone provider (in seconds) is the requested duration (in
\* minutes).
C38_RangeIsDuration ==
  \A r \in 1..MaxStreamReqs :
    (req[r].pc = "called" /\ req[r].asked # <<>>) =>
      req[r].asked[1].range = <<req[r].duration * 60>>

\* C39: after getUncachedArea has returned, whatever its outcome, no temporary
\* union table it created is left in the schema.
C39_NoTempTableLeft ==
  \A r \in Reqs : req[r].pc \in {"bg_fetch", "done"} => req[r].temp = {}

====
